---- MODULE Spec2Model ----
(***************************************************************************)
(* GLM usage dashboard: the snapshot store (scripts/usage-collector.mjs),  *)
(* the summarizer and combined reader (scripts/data-manager.mjs), the REST *)
(* read paths (scripts/api-server.mjs) and the profile registry            *)
(* (bin/glm-monitor.js), over a shared data directory and config store.    *)
(*                                                                         *)
(* Time is counted in ticks; TicksPerHour ticks make one calendar hour.    *)
(* A timestamp is the tick at which `new Date()` was read.  The entry      *)
(* counts and hour counts of the code (288 = 24h * 12, 2016 = 168h * 12,   *)
(* 8640 = 720h * 12) are scaled down together: the code's 24 hours are     *)
(* Hours24 model hours, 168 hours are Hours7d, 720 hours are Hours30d, and *)
(* the assumed cadence of 12 entries per hour is TicksPerHour, so the caps *)
(* keep the code's shape  cap = hours * entriesPerHour  and its order.     *)
(***************************************************************************)
EXTENDS Integers, Sequences, FiniteSets, TLC

(* ------------------------------ bounds --------------------------------- *)
MaxClock == 4
TicksPerHour == 2
Hours24 == 1
Hours7d == Hours24 + 1
Hours30d == Hours24 + 2
\* the local clock is set back one hour at the start of UTC hour FoldHour
FoldHour == 2
Names == {"work", "home"}
Tokens == {"tok"}

NoTime == -1
Unset == "<unset>"
Default == "default"

(* ------------------------- values and helpers -------------------------- *)
Num(n) == [k |-> "num", v |-> n]
NaN == [k |-> "NaN", v |-> 0]
Infinity == [k |-> "Infinity", v |-> 0]
JsonNull == [k |-> "null", v |-> 0]

\* JSON.stringify writes NaN and Infinity as null
JsonNumber(x) == IF x.k = "num" THEN x ELSE JsonNull

Last(s) == s[Len(s)]

\* Array.prototype.slice(-n)
SliceLast(s, n) == IF Len(s) <= n THEN s ELSE SubSeq(s, Len(s) - n + 1, Len(s))

\* Array.prototype.slice(0, n)
SliceFirst(s, n) == IF n <= 0 THEN << >> ELSE SubSeq(s, 1, IF n > Len(s) THEN Len(s) ELSE n)

\* rounding downwards instead of to the nearest integer
MathRound_floor(num, den) == num \div den

\* Math.round of the rational num/den, den > 0: floor(x + 1/2)
MathRound(num, den) == (2 * num + den) \div (2 * den)

RECURSIVE InsertByTimestamp(_, _)
InsertByTimestamp(sorted, x) ==
    IF sorted = << >> THEN << x >>
    ELSE IF Last(sorted).timestamp <= x.timestamp THEN Append(sorted, x)
    ELSE Append(InsertByTimestamp(SubSeq(sorted, 1, Len(sorted) - 1), x), Last(sorted))

\* Array.prototype.sort((a, b) => new Date(a.timestamp) - new Date(b.timestamp)), stable
RECURSIVE SortByTimestamp(_)
SortByTimestamp(s) ==
    IF s = << >> THEN << >>
    ELSE InsertByTimestamp(SortByTimestamp(SubSeq(s, 1, Len(s) - 1)), Last(s))

(* ------------------------- local calendar hours ------------------------ *)
\* date.getFullYear()/getMonth()/getDate()/getHours() of a timestamp: the
\* local calendar hour.  UTC hours FoldHour - 1 and FoldHour are the same
\* local hour (the hour repeated when daylight saving time ends).
LocalHour(ts) ==
    LET h == ts \div TicksPerHour IN IF h >= FoldHour THEN h - 1 ELSE h

\* new Date(y, m, d, h).toISOString(): a repeated local hour resolves to its
\* first occurrence
HourStart(key) ==
    IF key < FoldHour THEN key * TicksPerHour ELSE (key + 1) * TicksPerHour

(* ------------------------------ state ---------------------------------- *)
VARIABLES
    clock,          \* Date.now(), in ticks
    retention,      \* config 'retention'
    activeProfile,  \* config 'activeProfile' (Unset when never set)
    profiles,       \* config 'profiles': name -> profile
    files,          \* ~/.glm-monitor: path -> content
    lastOp,         \* the operation that ran last, with its outcome
    procs,          \* concurrently running processes: id -> position and locals
    input,          \* argument of a function applied on its own
    output,         \* its result
    state           \* the dashboard page's `state` object

vars == << clock, retention, activeProfile, profiles, files, lastOp, procs, input, output,
          state >>

\* what the sequential commands leave alone
aside == << procs, input, output, state >>

HistoryName == "usage-history.json"
SummaryName == "usage-summary.json"
\* a path in the data directory: << prefix, file name >>, "" for no prefix
Paths == ({""} \cup Names) \X {HistoryName, SummaryName}

Absent == [kind |-> "absent"]
\* content JSON.parse rejects (a partially written document)
Corrupt == [kind |-> "corrupt"]
NoValue == [kind |-> "undefined"]

\* JavaScript null
null == [kind |-> "null"]

\* the dashboard's state object as the page script creates it
stateAtLoad ==
    [data |-> null, loading |-> TRUE, error |-> null, refreshing |-> FALSE,
     timeRange |-> "24h"]

existsSync(p) == files[p].kind # "absent"


(* ---------------------- usage-collector.mjs ---------------------------- *)
\* what the three metering endpoints answer in one run, after the `|| 0`
\* defaults of the entry and of quotaLimits
Samples ==
    { [modelCalls |-> 1, tokensUsed |-> 2, mcpCalls |-> 0,
       tokenQuota |-> [current |-> 0, max |-> 0, percentage |-> 0],
       timeQuota |-> [current |-> 0, max |-> 0, percentage |-> 0]],
      [modelCalls |-> 2, tokensUsed |-> 3, mcpCalls |-> 1,
       tokenQuota |-> [current |-> 3, max |-> 6, percentage |-> 50],
       timeQuota |-> [current |-> 1, max |-> 10, percentage |-> 10]] }

\* HISTORY_FILE of the collector: not derived from the active profile
CollectorHistoryFile == << "", HistoryName >>

retentionMap(period) ==
    CASE period = "24h" -> Hours24 * TicksPerHour
      [] period = "7d" -> Hours7d * TicksPerHour
      [] period = "30d" -> Hours30d * TicksPerHour
      [] OTHER -> 0

\* retentionMap[retentionPeriod] || 288
MAX_HISTORY_ENTRIES(period) ==
    IF retentionMap(period) # 0 THEN retentionMap(period) ELSE Hours24 * TicksPerHour

EmptyHistory ==
    [kind |-> "doc", entries |-> << >>, lastUpdated |-> NoTime,
     quotaLimits |-> NoValue, quotaPrediction |-> NoValue]

\* loadHistory(): a missing file and an unparseable file both give the
\* empty document (the parse error is caught and logged)
loadHistory(content) ==
    IF content.kind = "doc" THEN content ELSE EmptyHistory

PredictionWindowHours == 6

\* calculateQuotaPrediction(quotaPercent, usageHistory) at Date.now() = now;
\* NoValue stands for the null result
calculateQuotaPrediction(quotaPercent, usageHistory, now) ==
    LET sixHoursAgo == now - PredictionWindowHours * TicksPerHour
        recentEntries == SelectSeq(usageHistory, LAMBDA e : e.timestamp >= sixHoursAgo)
    IN  IF Len(recentEntries) < 2 THEN NoValue
        ELSE
        LET oldest == recentEntries[1]
            latest == Last(recentEntries)
            elapsed == latest.timestamp - oldest.timestamp       \* ticks
            percentChange == latest.tokenQuotaPercent - oldest.tokenQuotaPercent
            remainingPercent == 100 - quotaPercent
        IN  IF elapsed = 0
            THEN \* percentChange / 0 is Infinity, -Infinity or NaN
                 IF percentChange < 0 THEN NoValue
                 ELSE IF percentChange > 0
                 THEN [hoursUntilExhausted |-> Num(0), rate |-> Infinity]
                 ELSE [hoursUntilExhausted |-> NaN, rate |-> NaN]
            ELSE \* percentPerHour = percentChange * TicksPerHour / elapsed
                 IF percentChange * elapsed <= 0 THEN NoValue
                 ELSE
                 LET p == IF elapsed > 0 THEN percentChange ELSE -percentChange
                     d == IF elapsed > 0 THEN elapsed ELSE -elapsed
                 IN  [hoursUntilExhausted |->
                          Num(MathRound(remainingPercent * d, p * TicksPerHour)),
                      \* toFixed(2), in hundredths
                      rate |-> Num(MathRound(100 * p * TicksPerHour, d))]

\* JSON.stringify of a prediction
PredictionJson(pr) ==
    [hoursUntilExhausted |-> JsonNumber(pr.hoursUntilExhausted), rate |-> pr.rate]

NewEntry(sample, now) ==
    [timestamp |-> now,
     modelCalls |-> sample.modelCalls,
     tokensUsed |-> sample.tokensUsed,
     mcpCalls |-> sample.mcpCalls,
     tokenQuotaPercent |-> sample.tokenQuota.percentage,
     timeQuotaPercent |-> sample.timeQuota.percentage]

\* the duplicate check left out
IsDuplicate_never(history, entry) == FALSE

\* latestExisting && latestExisting.timestamp === entry.timestamp
IsDuplicate(history, entry) ==
    /\ history.entries # << >>
    /\ Last(history.entries).timestamp = entry.timestamp

\* the trim cutting one entry below the cap
TrimEntries_early(entries, max) ==
    IF Len(entries) >= max THEN SliceLast(entries, max - 1) ELSE entries

\* the trim left out
TrimEntries_keepAll(entries, max) == entries

\* if (entries.length > MAX_HISTORY_ENTRIES) entries = entries.slice(-MAX_HISTORY_ENTRIES)
TrimEntries(entries, max) ==
    IF Len(entries) > max THEN SliceLast(entries, max) ELSE entries

\* the in-memory document collectUsage hands to saveHistory
UpdatedHistory(history, entry, sample, max, now) ==
    LET trimmed == TrimEntries(Append(history.entries, entry), max)
        prediction == calculateQuotaPrediction(entry.tokenQuotaPercent, trimmed, now)
    IN  [history EXCEPT
            !.entries = trimmed,
            !.lastUpdated = now,
            !.quotaLimits = [tokenQuota |-> sample.tokenQuota, timeQuota |-> sample.timeQuota],
            !.quotaPrediction = IF prediction = NoValue THEN @ ELSE PredictionJson(prediction)]

\* one whole run of the collector process, the metering API answering
collectUsage(sample) ==
    LET max == MAX_HISTORY_ENTRIES(retention)
        entry == NewEntry(sample, clock)
        history == loadHistory(files[CollectorHistoryFile])
    IN  /\ IF IsDuplicate(history, entry)
           THEN /\ files' = files
                /\ lastOp' = [op |-> "collect", result |-> "skipped", max |-> max,
                              loaded |-> files[CollectorHistoryFile].kind]
           ELSE /\ files' = [files EXCEPT ![CollectorHistoryFile] =
                                 UpdatedHistory(history, entry, sample, max, clock)]
                /\ lastOp' = [op |-> "collect", result |-> "saved", max |-> max,
                              loaded |-> files[CollectorHistoryFile].kind,
                              before |-> Len(history.entries)]
        /\ UNCHANGED << clock, retention, activeProfile, profiles, aside >>

\* a run killed inside writeFileSync, after the file was truncated and before
\* the whole document was written
collectUsageInterrupted(sample) ==
    LET entry == NewEntry(sample, clock)
        history == loadHistory(files[CollectorHistoryFile])
    IN  /\ ~IsDuplicate(history, entry)
        /\ files' = [files EXCEPT ![CollectorHistoryFile] = Corrupt]
        /\ lastOp' = [op |-> "collect", result |-> "killed"]
        /\ UNCHANGED << clock, retention, activeProfile, profiles, aside >>

\* a run whose API query fails or lacks totalUsage: process.exit(1)
collectUsageFailed ==
    /\ lastOp' = [op |-> "collect", result |-> "failed"]
    /\ UNCHANGED << clock, retention, activeProfile, profiles, files, aside >>

(* ------------------------- data-manager.mjs ---------------------------- *)
\* config.get('activeProfile', 'default')
getActiveProfile == IF activeProfile = Unset THEN Default ELSE activeProfile

\* getProfileDataPath(filename), evaluated when the module is loaded
getProfileDataPath(filename) ==
    IF getActiveProfile = Default THEN << "", filename >> ELSE << getActiveProfile, filename >>

MaxOf(a, b) == IF a >= b THEN a ELSE b

\* the "YYYY-MM-DD HH" key of an entry
hourKey(ts) == LocalHour(ts)

\* the summary created when an hour key is first met
InitialSummary(ts) ==
    [timestamp |-> HourStart(hourKey(ts)),
     modelCalls |-> 0, tokensUsed |-> 0, mcpCalls |-> 0,
     tokenQuotaPercent |-> 0, timeQuotaPercent |-> 0, entryCount |-> 0,
     maxModelCalls |-> 0, maxTokensUsed |-> 0, maxMcpCalls |-> 0]

\* entryCount set instead of incremented
FoldEntry_countOnce(summary, entry) ==
    [summary EXCEPT
        !.modelCalls = MaxOf(@, entry.modelCalls),
        !.tokensUsed = MaxOf(@, entry.tokensUsed),
        !.mcpCalls = MaxOf(@, entry.mcpCalls),
        !.tokenQuotaPercent = IF entry.tokenQuotaPercent # 0 THEN entry.tokenQuotaPercent ELSE @,
        !.timeQuotaPercent = IF entry.timeQuotaPercent # 0 THEN entry.timeQuotaPercent ELSE @,
        !.entryCount = 1]

\* the counters taken from the latest entry instead of the maximum
FoldEntry_latest(summary, entry) ==
    [summary EXCEPT
        !.modelCalls = entry.modelCalls,
        !.tokensUsed = entry.tokensUsed,
        !.mcpCalls = entry.mcpCalls,
        !.tokenQuotaPercent = IF entry.tokenQuotaPercent # 0 THEN entry.tokenQuotaPercent ELSE @,
        !.timeQuotaPercent = IF entry.timeQuotaPercent # 0 THEN entry.timeQuotaPercent ELSE @,
        !.entryCount = @ + 1]

\* the body of the forEach, after the summary of the entry's hour was found
FoldEntry(summary, entry) ==
    [summary EXCEPT
        !.modelCalls = MaxOf(@, entry.modelCalls),
        !.tokensUsed = MaxOf(@, entry.tokensUsed),
        !.mcpCalls = MaxOf(@, entry.mcpCalls),
        !.tokenQuotaPercent = IF entry.tokenQuotaPercent # 0 THEN entry.tokenQuotaPercent ELSE @,
        !.timeQuotaPercent = IF entry.timeQuotaPercent # 0 THEN entry.timeQuotaPercent ELSE @,
        !.entryCount = @ + 1]

\* the hourlySummaries object after the forEach: << key, summary >> pairs in
\* insertion order
RECURSIVE hourlySummaries(_)
hourlySummaries(entries) ==
    IF entries = << >> THEN << >>
    ELSE
    LET before == hourlySummaries(SubSeq(entries, 1, Len(entries) - 1))
        entry == Last(entries)
        key == hourKey(entry.timestamp)
        at == { i \in 1..Len(before) : before[i][1] = key }
    IN  IF at = { }
        THEN Append(before, << key, FoldEntry(InitialSummary(entry.timestamp), entry) >>)
        ELSE [i \in 1..Len(before) |->
                 IF i \in at THEN << key, FoldEntry(before[i][2], entry) >> ELSE before[i]]

generateSummaries(entries) ==
    LET hs == hourlySummaries(entries)
    IN  SortByTimestamp([i \in 1..Len(hs) |-> hs[i][2]])

retentionHours(period) ==
    CASE period = "7d" -> Hours7d
      [] period = "30d" -> Hours30d
      [] OTHER -> 0

\* const rawEntriesLimit = 288
rawEntriesLimit == Hours24 * TicksPerHour

\* the duplicate filter left out
uniqueSummaries_keepAll(allSummaries) == allSummaries

\* allSummaries.filter((s, index, self) => index === self.findIndex(t => t.timestamp === s.timestamp))
uniqueSummaries(allSummaries) ==
    LET keep == { i \in 1..Len(allSummaries) :
                    \A j \in 1..(i - 1) : allSummaries[j].timestamp # allSummaries[i].timestamp }
        F[i \in 0..Len(allSummaries)] ==
            IF i = 0 THEN << >>
            ELSE IF i \in keep THEN Append(F[i - 1], allSummaries[i]) ELSE F[i - 1]
    IN  F[Len(allSummaries)]

\* summaryData.summaries || [] of the summary file; [] when missing or unparseable
existingSummaries(content) ==
    IF content.kind = "doc" THEN content.summaries ELSE << >>

\* the Summary Document an archive pass writes for its to-archive slice
ArchivedSummaryDocument(data, summaryContent, period, now) ==
    LET entriesToSummarize == Len(data.entries) - rawEntriesLimit
        entriesToArchive == SliceFirst(data.entries, entriesToSummarize)
        summaries == generateSummaries(entriesToArchive)
        unique == uniqueSummaries(existingSummaries(summaryContent) \o summaries)
        cutoffDate == now - retentionHours(period) * TicksPerHour
        trimmedSummaries == SelectSeq(unique, LAMBDA s : s.timestamp >= cutoffDate)
    IN  [doc |-> [kind |-> "doc", summaries |-> trimmedSummaries,
                  lastUpdated |-> now, retentionPeriod |-> period],
         trimmedCount |-> Len(unique) - Len(trimmedSummaries),
         \* how many summaries the duplicate filter dropped
         duplicates |-> Len(existingSummaries(summaryContent)) + Len(summaries) - Len(unique)]

\* a trim that cuts the oldest entry on every pass
ArchivedHistoryDocument_dropOne(data, now) ==
    [data EXCEPT !.entries = SliceLast(@, Len(@) - 1), !.lastUpdated = now]

\* the History Document an archive pass writes
ArchivedHistoryDocument(data, now) ==
    [data EXCEPT !.entries = SliceLast(@, rawEntriesLimit), !.lastUpdated = now]

\* archiveOldData(retentionPeriod) on the files of the active profile
archiveOldData(period) ==
    LET HISTORY_FILE == getProfileDataPath(HistoryName)
        SUMMARY_FILE == getProfileDataPath(SummaryName)
        data == files[HISTORY_FILE]
        \* this pass directly follows a completed pass
        rerun == lastOp.op = "archive" /\ lastOp.result \in {"nothing", "trimmed"}
        none == [op |-> "archive", result |-> "nothing", archived |-> 0, trimmed |-> 0,
                 history |-> HISTORY_FILE, rerun |-> rerun]
    IN  IF ~existsSync(HISTORY_FILE)
        THEN files' = files /\ lastOp' = none
        ELSE IF data.kind = "corrupt"
        THEN \* JSON.parse throws, the process ends
             files' = files /\ lastOp' = [op |-> "archive", result |-> "threw",
                                          history |-> HISTORY_FILE]
        ELSE IF data.entries = << >> \/ retentionHours(period) = 0
        THEN files' = files /\ lastOp' = none
        ELSE
        LET entriesToSummarize == Len(data.entries) - rawEntriesLimit
            sd == ArchivedSummaryDocument(data, files[SUMMARY_FILE], period, clock)
        IN  /\ files' = [files EXCEPT
                   ![SUMMARY_FILE] = IF entriesToSummarize > 0 THEN sd.doc ELSE @,
                   ![HISTORY_FILE] = ArchivedHistoryDocument(data, clock)]
            /\ lastOp' = [op |-> "archive", result |-> "trimmed",
                          archived |-> IF entriesToSummarize > 0 THEN entriesToSummarize ELSE 0,
                          trimmed |-> IF entriesToSummarize > 0 THEN sd.trimmedCount ELSE 0,
                          duplicates |-> IF entriesToSummarize > 0 THEN sd.duplicates ELSE 0,
                          history |-> HISTORY_FILE, rerun |-> rerun,
                          \* this pass directly follows a killed one
                          recovered |-> lastOp.op = "archive" /\ lastOp.result = "killed"]

\* archiveOldData(retentionPeriod) killed after the Summary Document was
\* written and before the History Document is; `complete` is what the pass
\* would have left had it run to its end
archiveInterrupted(period) ==
    LET HISTORY_FILE == getProfileDataPath(HistoryName)
        SUMMARY_FILE == getProfileDataPath(SummaryName)
        data == files[HISTORY_FILE]
    IN  /\ existsSync(HISTORY_FILE)
        /\ data.kind = "doc"
        /\ retentionHours(period) # 0
        /\ Len(data.entries) - rawEntriesLimit > 0
        /\ LET sd == ArchivedSummaryDocument(data, files[SUMMARY_FILE], period, clock)
           IN  /\ files' = [files EXCEPT ![SUMMARY_FILE] = sd.doc]
               /\ lastOp' = [op |-> "archive", result |-> "killed",
                             history |-> HISTORY_FILE,
                             complete |-> [entries |-> ArchivedHistoryDocument(data, clock).entries,
                                           summaries |-> sd.doc.summaries]]

\* the cleanup process killed between its two writes
CleanupInterrupted ==
    /\ retention # "24h"
    /\ archiveInterrupted(retention)
    /\ UNCHANGED << clock, retention, activeProfile, profiles, aside >>

\* node scripts/data-manager.mjs (glm-monitor cleanup)
Cleanup ==
    /\ IF retention = "24h"
       THEN files' = files /\ lastOp' = [op |-> "archive", result |-> "24h"]
       ELSE archiveOldData(retention)
    /\ UNCHANGED << clock, retention, activeProfile, profiles, aside >>

\* the range tokens; the ranges of at most a day share the shortest window
\* of the time scale
RangeTokens == {"1h", "6h", "12h", "24h", "7d", "30d"}

rangeHours(range) ==
    CASE range \in {"1h", "6h", "12h", "24h"} -> Hours24
      [] range = "7d" -> Hours7d
      [] range = "30d" -> Hours30d
      [] OTHER -> 0

\* the hour key getCombinedData compares raw entries and summaries by
combinedHourKey(ts) == LocalHour(ts)

\* getCombinedData(range) at Date.now() = now
getCombinedData(range, now) ==
    LET HISTORY_FILE == getProfileDataPath(HistoryName)
        SUMMARY_FILE == getProfileDataPath(SummaryName)
        hours == IF rangeHours(range) # 0 THEN rangeHours(range) ELSE Hours24
        cutoffDate == now - hours * TicksPerHour
        entries == IF files[HISTORY_FILE].kind = "doc"
                   THEN SelectSeq(files[HISTORY_FILE].entries,
                                  LAMBDA e : e.timestamp >= cutoffDate)
                   ELSE << >>
        summaries == IF hours > Hours24 /\ files[SUMMARY_FILE].kind = "doc"
                     THEN SelectSeq(files[SUMMARY_FILE].summaries,
                                    LAMBDA s : s.timestamp >= cutoffDate)
                     ELSE << >>
        rawTimestamps == { combinedHourKey(entries[i].timestamp) : i \in 1..Len(entries) }
        filteredSummaries ==
            SelectSeq(summaries, LAMBDA s : combinedHourKey(s.timestamp) \notin rawTimestamps)
    IN  SortByTimestamp(filteredSummaries \o entries)

\* a caller of getCombinedData
CombinedQuery(range) ==
    /\ lastOp' = [op |-> "getCombinedData", range |-> range,
                  result |-> getCombinedData(range, clock)]
    /\ UNCHANGED << clock, retention, activeProfile, profiles, files, aside >>

(* --------------------------- api-server.mjs ---------------------------- *)
getHistoryFilePath == 
    IF getActiveProfile = Default THEN << "", HistoryName >>
    ELSE << getActiveProfile, HistoryName >>

getSummaryFilePath == 
    IF getActiveProfile = Default THEN << "", SummaryName >>
    ELSE << getActiveProfile, SummaryName >>

\* loadData(): NoValue stands for null (no history file, or a parse error
\* in either file, which is caught and logged)
loadData ==
    LET history == files[getHistoryFilePath]
        summary == files[getSummaryFilePath]
    IN  IF history.kind # "doc" THEN NoValue
        ELSE IF summary.kind = "corrupt" THEN NoValue
        ELSE [data |-> history,
              summaries |-> IF summary.kind = "doc" THEN summary.summaries ELSE << >>]

RANGE_MAP(range) ==
    CASE range \in {"1h", "6h", "12h", "24h"} -> Hours24 * TicksPerHour
      [] range = "7d" -> Hours7d * TicksPerHour
      [] range = "30d" -> Hours30d * TicksPerHour
      [] OTHER -> 0

NoRange == "<none>"

\* the entries GET /api/history works on after range filtering
historyEntries(loaded, range, now) ==
    LET all == loaded.data.entries
        entries == IF range # NoRange /\ RANGE_MAP(range) # 0
                   THEN SliceLast(all, RANGE_MAP(range)) ELSE all
    IN  IF range \in {"7d", "30d"} /\ Len(loaded.summaries) > 0
        THEN LET oldestEntryTime == IF Len(entries) > 0 THEN entries[1].timestamp ELSE now
                 relevantSummaries ==
                     SelectSeq(loaded.summaries, LAMBDA s : s.timestamp < oldestEntryTime)
             IN  relevantSummaries \o entries
        ELSE entries

\* the answer of GET /api/history?range=&format=
apiHistory(range, format, now) ==
    LET loaded == loadData
    IN  IF loaded = NoValue THEN [status |-> 404, error |-> "No data available"]
        ELSE
        LET entries == historyEntries(loaded, range, now)
        IN  IF format = "summary"
            THEN IF Len(entries) = 0
                 THEN [status |-> 404, error |-> "No data for the specified range"]
                 ELSE LET first == entries[1]
                          last == Last(entries)
                      IN  [status |-> 200, format |-> "summary",
                           totalModelCalls |-> last.modelCalls,
                           totalTokensUsed |-> last.tokensUsed,
                           totalMcpCalls |-> last.mcpCalls,
                           \* a quotient, kept as numerator and denominator
                           tokenGrowth |-> IF first.tokensUsed > 0
                                           THEN << (last.tokensUsed - first.tokensUsed) * 100,
                                                   first.tokensUsed >>
                                           ELSE << 0, 1 >>,
                           entryCount |-> Len(entries),
                           timeRange |-> [start |-> first.timestamp, end |-> last.timestamp],
                           profile |-> getActiveProfile]
            ELSE [status |-> 200, format |-> "raw", entries |-> entries,
                  lastUpdated |-> loaded.data.lastUpdated, profile |-> getActiveProfile]

ApiHistory(range, format) ==
    /\ lastOp' = [op |-> "GET /api/history", range |-> range,
                  response |-> apiHistory(range, format, clock)]
    /\ UNCHANGED << clock, retention, activeProfile, profiles, files, aside >>

\* parseInt(token): the leading decimal digits of the token, 0 standing for
\* the NaN of a token without any
parseInt(token) ==
    CASE token = "1h" -> 1
      [] token = "2h" -> 2
      [] token = "6h" -> 6
      [] token = "0h" -> 0
      [] OTHER -> 0

NoWindow == "<none>"
WindowTokens == {NoWindow, "2h", "6h", "all"}

\* const { window = dflt } = req.query; parseInt(window) || fallback
windowHours(token, dflt, fallback) ==
    LET hours == parseInt(IF token = NoWindow THEN dflt ELSE token)
    IN  IF hours # 0 THEN hours ELSE fallback

\* the quotient cut downwards instead of rounded
RoundedQuotient_floor(num, den) ==
    IF den = 0 THEN (IF num = 0 THEN NaN ELSE Infinity)
    ELSE IF den > 0 THEN Num(num \div den)
    ELSE Num((-num) \div (-den))

\* Math.round(num / den) of two integers as a JS number: a zero denominator
\* gives NaN or an infinity, which Math.round leaves as they are
RoundedQuotient(num, den) ==
    IF den = 0 THEN (IF num = 0 THEN NaN ELSE Infinity)
    ELSE IF den > 0 THEN Num(MathRound(num, den))
    ELSE Num(MathRound(-num, -den))

\* GET /api/current
apiCurrent ==
    LET loaded == loadData
    IN  IF loaded = NoValue THEN [status |-> 404, error |-> "No data available"]
        ELSE IF loaded.data.entries = << >>
        THEN [status |-> 404, error |-> "No data available"]
        ELSE LET latest == Last(loaded.data.entries)
             IN  [status |-> 200,
                  timestamp |-> latest.timestamp,
                  modelCalls |-> latest.modelCalls,
                  tokensUsed |-> latest.tokensUsed,
                  mcpCalls |-> latest.mcpCalls,
                  tokenQuotaPercent |-> latest.tokenQuotaPercent,
                  timeQuotaPercent |-> latest.timeQuotaPercent,
                  quotaLimits |-> loaded.data.quotaLimits,
                  profile |-> getActiveProfile]

ApiCurrent ==
    /\ lastOp' = [op |-> "GET /api/current", response |-> apiCurrent]
    /\ UNCHANGED << clock, retention, activeProfile, profiles, files, aside >>

\* the hoursElapsed test of GET /api/rates left out
ratesInvalidWindow_never(elapsed) == FALSE

\* if (hoursElapsed <= 0) of GET /api/rates, elapsed in ticks
ratesInvalidWindow(elapsed) == elapsed <= 0

\* the answer of GET /api/rates?window= at Date.now() = now
apiRates(window, now) ==
    LET loaded == loadData
    IN  IF loaded = NoValue
        THEN [status |-> 404, error |-> "Insufficient data for rate calculation"]
        ELSE IF Len(loaded.data.entries) < 2
        THEN [status |-> 404, error |-> "Insufficient data for rate calculation"]
        ELSE
        LET hours == windowHours(window, "1h", 1)
            cutoffDate == now - hours * TicksPerHour
            entries == SelectSeq(loaded.data.entries, LAMBDA e : e.timestamp >= cutoffDate)
        IN  IF Len(entries) < 2
            THEN [status |-> 404, error |-> "Insufficient data for the specified window"]
            ELSE
            LET first == entries[1]
                last == Last(entries)
                elapsed == last.timestamp - first.timestamp          \* ticks
                tokens == last.tokensUsed - first.tokensUsed
                calls == last.modelCalls - first.modelCalls
                \* callsPerHour > 0
                callsPositive == (elapsed >= 0 /\ calls > 0) \/ (elapsed < 0 /\ calls < 0)
            IN  IF ratesInvalidWindow(elapsed)
                THEN [status |-> 400, error |-> "Invalid time window"]
                ELSE [status |-> 200,
                      window |-> hours,
                      tokensPerHour |-> JsonNumber(RoundedQuotient(tokens * TicksPerHour, elapsed)),
                      callsPerHour |-> JsonNumber(RoundedQuotient(calls * TicksPerHour, elapsed)),
                      \* tokensPerHour / callsPerHour: a finite hoursElapsed
                      \* cancels, two infinities give NaN
                      avgTokensPerCall |-> IF ~callsPositive THEN Num(0)
                                           ELSE IF elapsed = 0 THEN JsonNumber(NaN)
                                           ELSE JsonNumber(RoundedQuotient(tokens, calls)),
                      entriesCount |-> Len(entries),
                      profile |-> getActiveProfile]

ApiRates(window) ==
    /\ lastOp' = [op |-> "GET /api/rates", window |-> window,
                  response |-> apiRates(window, clock)]
    /\ UNCHANGED << clock, retention, activeProfile, profiles, files, aside >>

WarningHours == 24

\* if (hoursElapsed <= 0) of GET /api/predict, elapsed in ticks
predictInvalidWindow(elapsed) == elapsed <= 0

\* the answer of GET /api/predict?timeWindow= at Date.now() = now
apiPredict(timeWindow, now) ==
    LET loaded == loadData
    IN  IF loaded = NoValue
        THEN [status |-> 404, error |-> "Insufficient data for prediction"]
        ELSE IF Len(loaded.data.entries) < 2
        THEN [status |-> 404, error |-> "Insufficient data for prediction"]
        ELSE
        LET hours == windowHours(timeWindow, "6h", PredictionWindowHours)
            cutoffDate == now - hours * TicksPerHour
            recentEntries == SelectSeq(loaded.data.entries,
                                       LAMBDA e : e.timestamp >= cutoffDate)
        IN  IF Len(recentEntries) < 2
            THEN [status |-> 404,
                  error |-> "Insufficient data for prediction in the specified window"]
            ELSE
            LET oldest == recentEntries[1]
                latest == Last(recentEntries)
                elapsed == latest.timestamp - oldest.timestamp       \* ticks
                percentChange == latest.tokenQuotaPercent - oldest.tokenQuotaPercent
                remainingPercent == 100 - latest.tokenQuotaPercent
            IN  IF predictInvalidWindow(elapsed)
                THEN [status |-> 400, error |-> "Invalid time window"]
                ELSE IF percentChange <= 0
                THEN [status |-> 200,
                      tokenQuotaPercent |-> latest.tokenQuotaPercent,
                      timeQuotaPercent |-> latest.timeQuotaPercent,
                      hoursUntilExhausted |-> JsonNull,
                      rate |-> Num(0),
                      message |-> "Quota not being consumed or decreasing",
                      window |-> hours,
                      profile |-> getActiveProfile]
                ELSE [status |-> 200,
                      tokenQuotaPercent |-> latest.tokenQuotaPercent,
                      timeQuotaPercent |-> latest.timeQuotaPercent,
                      hoursUntilExhausted |->
                          Num(MathRound(remainingPercent * elapsed,
                                        percentChange * TicksPerHour)),
                      \* parseFloat(toFixed(2)), in hundredths
                      rate |-> Num(MathRound(100 * percentChange * TicksPerHour, elapsed)),
                      window |-> hours,
                      \* hoursUntilExhausted < 24, before rounding
                      warning |-> remainingPercent * elapsed
                                      < WarningHours * percentChange * TicksPerHour,
                      profile |-> getActiveProfile]

ApiPredict(timeWindow) ==
    /\ lastOp' = [op |-> "GET /api/predict", window |-> timeWindow,
                  response |-> apiPredict(timeWindow, clock)]
    /\ UNCHANGED << clock, retention, activeProfile, profiles, files, aside >>

(* ------------------- bin/glm-monitor.js: profile, restore -------------- *)
\* glm-monitor predict: reads ~/.glm-monitor/usage-history.json and runs its
\* own copy of calculateQuotaPrediction on it
PredictCommand ==
    LET dataPath == << "", HistoryName >>
        history == files[dataPath]
    IN  /\ lastOp' =
               IF ~existsSync(dataPath) THEN [op |-> "predict", result |-> "no data"]
               ELSE IF history.kind = "corrupt" THEN [op |-> "predict", result |-> "threw"]
               ELSE IF history.entries = << >> THEN [op |-> "predict", result |-> "no data"]
               ELSE [op |-> "predict", result |-> "done",
                     prediction |->
                         calculateQuotaPrediction(Last(history.entries).tokenQuotaPercent,
                                                  history.entries, clock)]
        /\ UNCHANGED << clock, retention, activeProfile, profiles, files, aside >>

\* config.get('baseUrl', 'https://api.z.ai/api/anthropic')
BaseUrl == "https://api.z.ai/api/anthropic"

\* the already-exists test left out
CreateRefusal_noExistsCheck(name, token) ==
    IF name = Default THEN "reserved"
    ELSE IF token = "" THEN "no token"
    ELSE "none"

\* the three early returns of profile --create, "none" when it goes through
CreateRefusal(name, token) ==
    IF name = Default THEN "reserved"
    ELSE IF name \in DOMAIN profiles THEN "exists"
    ELSE IF token = "" THEN "no token"
    ELSE "none"

\* glm-monitor profile --create <name> --token <token>
CreateProfile(name, token) ==
    /\ IF CreateRefusal(name, token) # "none"
       THEN /\ lastOp' = [op |-> "profile --create", name |-> name,
                          result |-> CreateRefusal(name, token)]
            /\ UNCHANGED << profiles, activeProfile >>
       ELSE /\ profiles' = [n \in DOMAIN profiles \cup {name} |->
                               IF n = name
                               THEN [authToken |-> token, baseUrl |-> BaseUrl,
                                     createdAt |-> clock]
                               ELSE profiles[n]]
            \* the first custom profile becomes the active one
            /\ activeProfile' = IF Cardinality(DOMAIN profiles \cup {name}) = 1
                                THEN name ELSE activeProfile
            /\ lastOp' = [op |-> "profile --create", name |-> name, result |-> "created"]
    /\ UNCHANGED << clock, retention, files, aside >>

\* glm-monitor profile --switch <name>
SwitchProfile(name) ==
    /\ IF name # Default /\ name \notin DOMAIN profiles
       THEN /\ lastOp' = [op |-> "profile --switch", name |-> name, result |-> "not found"]
            /\ UNCHANGED activeProfile
       ELSE /\ activeProfile' = name
            /\ lastOp' = [op |-> "profile --switch", name |-> name, result |-> "switched"]
    /\ UNCHANGED << clock, retention, profiles, files, aside >>

\* the active-profile test left out
DeleteRefusal_noActiveCheck(name) ==
    IF name = Default THEN "default"
    ELSE IF name \notin DOMAIN profiles THEN "not found"
    ELSE "none"

\* the three early returns of profile --delete, "none" when it goes through
DeleteRefusal(name) ==
    IF name = Default THEN "default"
    ELSE IF name \notin DOMAIN profiles THEN "not found"
    ELSE IF name = activeProfile THEN "active"
    ELSE "none"

\* only the History Document deleted
filesToDelete_historyOnly(name) == { << name, HistoryName >> }

\* the data files profile --delete removes
filesToDelete(name) == { << name, HistoryName >>, << name, SummaryName >> }

\* glm-monitor profile --delete <name>
DeleteProfile(name) ==
    /\ IF DeleteRefusal(name) # "none"
       THEN /\ lastOp' = [op |-> "profile --delete", name |-> name,
                          result |-> DeleteRefusal(name)]
            /\ UNCHANGED << profiles, files >>
       ELSE /\ profiles' = [n \in DOMAIN profiles \ {name} |-> profiles[n]]
            /\ files' = [p \in Paths |->
                            IF p \in filesToDelete(name) THEN Absent ELSE files[p]]
            \* unlinked: the files that existed and were removed
            /\ lastOp' = [op |-> "profile --delete", name |-> name, result |-> "deleted",
                          unlinked |-> { p \in filesToDelete(name) : existsSync(p) }]
    /\ UNCHANGED << clock, retention, activeProfile, aside >>

\* backup files a user can hand to restore: the history of one collector run
\* at tick 0, with or without the summaries object of a profile never archived
BackupHistory ==
    [kind |-> "doc",
     entries |-> << [timestamp |-> 0, modelCalls |-> 1, tokensUsed |-> 2, mcpCalls |-> 0,
                     tokenQuotaPercent |-> 0, timeQuotaPercent |-> 0] >>,
     lastUpdated |-> 0,
     quotaLimits |-> [tokenQuota |-> [current |-> 0, max |-> 0, percentage |-> 0],
                      timeQuota |-> [current |-> 0, max |-> 0, percentage |-> 0]],
     quotaPrediction |-> NoValue]

BackupSummaries ==
    { NoValue,
      [kind |-> "doc", summaries |-> << >>, lastUpdated |-> NoTime, retentionPeriod |-> "24h"] }

Backups ==
    { [profile |-> p, history |-> BackupHistory, summaries |-> sm] :
          p \in {Default} \cup Names, sm \in BackupSummaries }

\* glm-monitor restore --from <file> --force
Restore(backup) ==
    LET prefix == IF backup.profile = Default THEN "" ELSE backup.profile
    IN  /\ files' = [files EXCEPT
               ![<< prefix, HistoryName >>] = backup.history,
               ![<< prefix, SummaryName >>] =
                   IF backup.summaries # NoValue THEN backup.summaries ELSE @]
        /\ lastOp' = [op |-> "restore", profile |-> backup.profile]
        /\ UNCHANGED << clock, retention, activeProfile, profiles, aside >>

(* --------------------------- environment ------------------------------- *)
TickTo(limit) ==
    /\ clock < limit
    /\ clock' = clock + 1
    /\ lastOp' = [op |-> "tick"]
    /\ UNCHANGED << retention, activeProfile, profiles, files, aside >>

\* glm-monitor config --retention <period> (an invalid period is refused)
SetRetention(period) ==
    /\ period \in {"24h", "7d", "30d"}
    /\ retention' = period
    /\ lastOp' = [op |-> "config", period |-> period]
    /\ UNCHANGED << clock, activeProfile, profiles, files, aside >>

Init ==
    /\ clock = 0
    /\ retention = "24h"
    /\ activeProfile = Unset
    /\ profiles = << >>
    /\ files = [p \in Paths |-> Absent]
    /\ lastOp = [op |-> "init"]
    /\ procs = << >>
    /\ input = NoValue
    /\ output = NoValue
    /\ state = stateAtLoad

QueryRanges == {NoRange, "24h", "7d", "30d", "bogus"}

NextStore ==
    \/ TickTo(MaxClock)
    \/ \E period \in {"24h", "7d", "30d"} : SetRetention(period)
    \/ \E sample \in Samples : collectUsage(sample)
    \/ \E sample \in Samples : collectUsageInterrupted(sample)
    \/ collectUsageFailed
    \/ Cleanup

NextQuery ==
    \/ \E range \in QueryRanges : CombinedQuery(range)
    \/ \E range \in QueryRanges, format \in {"raw", "summary"} : ApiHistory(range, format)

Next == NextStore

MaxClockArchive == 5

\* collector runs and archive passes under a long retention, the clock
\* running past the retention window
NextArchive ==
    \/ TickTo(MaxClockArchive)
    \/ \E period \in {"7d", "30d"} : SetRetention(period)
    \/ \E sample \in Samples : collectUsage(sample)
    \/ Cleanup
    \/ CleanupInterrupted

SpecArchive == Init /\ [][NextArchive]_vars

\* the store: collector and archive runs, one process at a time
Spec == Init /\ [][Next]_vars

\* the store with its readers
SpecQuery == Init /\ [][NextStore \/ NextQuery]_vars

MaxClockProfiles == 1

NextProfiles ==
    \/ TickTo(MaxClockProfiles)
    \/ \E name \in Names \cup {Default}, token \in Tokens \cup {""} : CreateProfile(name, token)
    \/ \E name \in Names \cup {Default} : SwitchProfile(name)
    \/ \E name \in Names \cup {Default} : DeleteProfile(name)
    \/ \E backup \in Backups : Restore(backup)
    \/ \E sample \in Samples : collectUsage(sample)

\* the profile registry, with restore and the collector
SpecProfiles == Init /\ [][NextProfiles]_vars

(* ------------- collector runs and a reader, step by step --------------- *)
Collectors == {"c1", "c2"}
MaxClockRace == 1

Idle == [pc |-> "idle"]

\* what saveHistory writes is also merged with what is on disk
DocumentToWrite_merge(onDisk, history) ==
    IF onDisk.kind = "doc" /\ onDisk.entries # << >>
       /\ \A i \in 1..Len(history.entries) : history.entries[i] # Last(onDisk.entries)
    THEN [history EXCEPT !.entries = Append(onDisk.entries, Last(history.entries))]
    ELSE history

\* saveHistory(history): JSON.stringify(history), whatever the file holds now
DocumentToWrite(onDisk, history) == history

\* the entry is created, line 436; MAX_HISTORY_ENTRIES was read at load time
cCreate(c, sample) ==
    /\ procs[c].pc = "idle"
    /\ procs' = [procs EXCEPT ![c] =
           [pc |-> "created", sample |-> sample, entry |-> NewEntry(sample, clock),
            max |-> MAX_HISTORY_ENTRIES(retention)]]
    /\ lastOp' = [op |-> "collector step"]
    /\ UNCHANGED << clock, retention, activeProfile, profiles, files, input, output, state >>

\* loadHistory() to the end of the in-memory update, lines 446 to 483
cLoad(c) ==
    LET me == procs[c]
        history == loadHistory(files[CollectorHistoryFile])
    IN  /\ me.pc = "created"
        /\ procs' = [procs EXCEPT ![c] =
               IF IsDuplicate(history, me.entry)
               THEN [pc |-> "done", result |-> "skipped", entry |-> me.entry,
                     loadedFirst |-> FALSE]
               ELSE [pc |-> "saving", entry |-> me.entry,
                     history |-> UpdatedHistory(history, me.entry, me.sample, me.max, clock),
                     \* no other run had opened the file for writing yet
                     loadedFirst |-> \A d \in Collectors \ {c} :
                                         procs[d].pc \notin {"writing", "done"}]]
        /\ lastOp' = [op |-> "collector step"]
        /\ UNCHANGED << clock, retention, activeProfile, profiles, files, input, output, state >>

\* fs.writeFileSync opens the file with O_TRUNC: it is empty until written
cOpen(c) ==
    LET me == procs[c]
    IN  /\ me.pc = "saving"
        /\ procs' = [procs EXCEPT ![c] =
               [pc |-> "writing", entry |-> me.entry, loadedFirst |-> me.loadedFirst,
                toWrite |-> DocumentToWrite(files[CollectorHistoryFile], me.history),
                overwritten |-> FALSE]]
        /\ files' = [files EXCEPT ![CollectorHistoryFile] = Corrupt]
        /\ lastOp' = [op |-> "collector step"]
        /\ UNCHANGED << clock, retention, activeProfile, profiles, input, output, state >>

\* the bytes are written from offset 0.  When another run wrote the file after
\* this run truncated it, the two texts overlay: this run's document, or this
\* run's document followed by the tail of a longer one, which does not parse.
cWrite(c) ==
    LET me == procs[c]
    IN  /\ me.pc = "writing"
        /\ \E content \in {me.toWrite} \cup (IF me.overwritten THEN {Corrupt} ELSE { }) :
               files' = [files EXCEPT ![CollectorHistoryFile] = content]
        /\ procs' = [d \in Collectors |->
               IF d = c
               THEN [pc |-> "done", result |-> "saved", entry |-> me.entry,
                     loadedFirst |-> me.loadedFirst]
               ELSE IF procs[d].pc = "writing"
               THEN [procs[d] EXCEPT !.overwritten = TRUE]
               ELSE procs[d]]
        /\ lastOp' = [op |-> "collector step"]
        /\ UNCHANGED << clock, retention, activeProfile, profiles, input, output, state >>

\* a reader (REST handler, CLI, dashboard data endpoint) reads the history file
ReadHistory ==
    /\ lastOp' = [op |-> "read", saw |-> files[getHistoryFilePath].kind,
                  loaded |-> IF loadData = NoValue THEN "null" ELSE "data"]
    /\ UNCHANGED << clock, retention, activeProfile, profiles, files, aside >>

InitRace ==
    /\ clock = 0
    /\ retention = "24h"
    /\ activeProfile = Unset
    /\ profiles = << >>
    /\ files = [p \in Paths |-> Absent]
    /\ lastOp = [op |-> "init"]
    /\ procs = [c \in Collectors |-> Idle]
    /\ input = NoValue
    /\ output = NoValue
    /\ state = stateAtLoad

NextRace ==
    \/ TickTo(MaxClockRace)
    \/ \E c \in Collectors, sample \in Samples : cCreate(c, sample)
    \/ \E c \in Collectors : cLoad(c)
    \/ \E c \in Collectors : cOpen(c)
    \/ \E c \in Collectors : cWrite(c)
    \/ ReadHistory

\* two collector processes and a reader sharing the history file
SpecRace == InitRace /\ [][NextRace]_vars

(* ------------------- generateSummaries on its own ---------------------- *)
MaxInputLen == 3
MaxInputTs == 7

\* counters and gauges of an input entry: a high reading, a lower reading
\* with both gauges zero, and an all-zero reading with one gauge set
Payloads ==
    { [modelCalls |-> 5, tokensUsed |-> 9, mcpCalls |-> 2,
       tokenQuotaPercent |-> 50, timeQuotaPercent |-> 10],
      [modelCalls |-> 3, tokensUsed |-> 4, mcpCalls |-> 1,
       tokenQuotaPercent |-> 0, timeQuotaPercent |-> 0],
      [modelCalls |-> 0, tokensUsed |-> 0, mcpCalls |-> 0,
       tokenQuotaPercent |-> 60, timeQuotaPercent |-> 0] }

InputEntries ==
    { [timestamp |-> t, modelCalls |-> p.modelCalls, tokensUsed |-> p.tokensUsed,
       mcpCalls |-> p.mcpCalls, tokenQuotaPercent |-> p.tokenQuotaPercent,
       timeQuotaPercent |-> p.timeQuotaPercent] : t \in 0..MaxInputTs, p \in Payloads }

SeqsUpTo(S, n) == UNION { [1..k -> S] : k \in 0..n }

InitSummaries ==
    /\ clock = 0
    /\ retention = "24h"
    /\ activeProfile = Unset
    /\ profiles = << >>
    /\ files = [p \in Paths |-> Absent]
    /\ lastOp = [op |-> "init"]
    /\ procs = << >>
    /\ input \in SeqsUpTo(InputEntries, MaxInputLen)
    /\ output = NoValue
    /\ state = stateAtLoad

Summarize ==
    /\ output = NoValue
    /\ output' = [kind |-> "summaries", value |-> generateSummaries(input)]
    /\ lastOp' = [op |-> "generateSummaries"]
    /\ UNCHANGED << clock, retention, activeProfile, profiles, files, procs, input, state >>

\* generateSummaries applied to any list of entries, in any order
SpecSummaries == InitSummaries /\ [][Summarize]_vars

(* --------- the REST handlers and the predict command as readers -------- *)
\* The History Document they read is whatever is in the data directory:
\* written by the collector, by restore (which copies backup.history as it
\* is) or by hand.  Entries may repeat a timestamp or be out of order.
MaxPoints == 3

\* whole hours before the time of the request
PointTimes == { h * TicksPerHour : h \in {0, 2, 3, 4} }

PointPayloads ==
    { [tokenQuotaPercent |-> 50, tokensUsed |-> 1000000, modelCalls |-> 100],
      [tokenQuotaPercent |-> 53, tokensUsed |-> 1500000, modelCalls |-> 150],
      [tokenQuotaPercent |-> 60, tokensUsed |-> 2200000, modelCalls |-> 220] }

Points ==
    { [timestamp |-> t, modelCalls |-> p.modelCalls, tokensUsed |-> p.tokensUsed,
       mcpCalls |-> 0, tokenQuotaPercent |-> p.tokenQuotaPercent, timeQuotaPercent |-> 0] :
          t \in PointTimes, p \in PointPayloads }

\* Date.now() of the requests
ApiNow == 4 * TicksPerHour

HistoryDocument(entries) ==
    [kind |-> "doc", entries |-> entries, lastUpdated |-> NoTime,
     quotaLimits |-> NoValue, quotaPrediction |-> NoValue]

InitApi ==
    /\ clock = ApiNow
    /\ retention = "24h"
    /\ activeProfile = Unset
    /\ profiles = << >>
    /\ \E content \in {Absent, Corrupt}
                         \cup { HistoryDocument(s) : s \in SeqsUpTo(Points, MaxPoints) } :
           files = [p \in Paths |-> IF p = << "", HistoryName >> THEN content ELSE Absent]
    /\ lastOp = [op |-> "init"]
    /\ procs = << >>
    /\ input = NoValue
    /\ output = NoValue
    /\ state = stateAtLoad

NextApi ==
    \/ ApiCurrent
    \/ \E range \in {NoRange, "24h"}, format \in {"raw", "summary"} : ApiHistory(range, format)
    \/ \E window \in WindowTokens : ApiRates(window)
    \/ \E window \in WindowTokens : ApiPredict(window)
    \/ PredictCommand

SpecApi == InitApi /\ [][NextApi]_vars

(* ------------- GET /api/predict over finer-grained documents ----------- *)
MaxPredictPoints == 2

PredictPercents == {50, 53, 60}

\* entries at any tick up to the time of the request
PredictPoints ==
    { [timestamp |-> t, modelCalls |-> 0, tokensUsed |-> 0, mcpCalls |-> 0,
       tokenQuotaPercent |-> q, timeQuotaPercent |-> 0] :
          t \in 0..ApiNow, q \in PredictPercents }

InitPredict ==
    /\ clock = ApiNow
    /\ retention = "24h"
    /\ activeProfile = Unset
    /\ profiles = << >>
    /\ \E s \in SeqsUpTo(PredictPoints, MaxPredictPoints) :
           files = [p \in Paths |->
                       IF p = << "", HistoryName >> THEN HistoryDocument(s) ELSE Absent]
    /\ lastOp = [op |-> "init"]
    /\ procs = << >>
    /\ input = NoValue
    /\ output = NoValue
    /\ state = stateAtLoad

NextPredict == \E window \in WindowTokens : ApiPredict(window)

SpecPredict == InitPredict /\ [][NextPredict]_vars

(* ----------------- dashboard page (fetchData, render) ------------------ *)
\* fetchData calls that may await at the same time
MaxInFlight == 2

\* values of the time range select the page offers
timeRanges == {"1h", "24h", "7d"}

\* what one fetch of DATA_URL can come to: fetch rejects, the response is not
\* ok, its body is not JSON, or its body is the History Document
FetchOutcomes ==
    { [kind |-> "rejected", message |-> "Failed to fetch"],
      [kind |-> "notOk", message |-> "Data not available. Run collection first."],
      [kind |-> "badJson", message |-> "Unexpected token"] }
    \cup { [kind |-> "json", data |-> HistoryDocument(s)] :
               s \in {<< >>} \cup { << p >> : p \in {q \in Points : q.timestamp = ApiNow} } }

\* which of its three views render() puts into #app
render(st) ==
    IF st.loading /\ st.data = null THEN "skeleton"
    ELSE IF st.error # null THEN "error"
    ELSE "data"

\* a sequence without its i-th element
Without(s, i) == SubSeq(s, 1, i - 1) \o SubSeq(s, i + 1, Len(s))

\* fetchData up to its first await
fetchDataCall(isManualRefresh) ==
    /\ Len(procs) < MaxInFlight
    /\ state' = IF isManualRefresh THEN [state EXCEPT !.refreshing = TRUE] ELSE state
    /\ procs' = Append(procs, [isManualRefresh |-> isManualRefresh])
    /\ lastOp' = [op |-> "fetchData", step |-> "called",
                  isManualRefresh |-> isManualRefresh]
    /\ UNCHANGED << clock, retention, activeProfile, profiles, files, input, output >>

\* the rest of the i-th awaiting fetchData call, its render included
fetchDataSettle(i, outcome) ==
    /\ i \in 1..Len(procs)
    /\ state' = IF outcome.kind = "json"
                THEN [state EXCEPT !.data = outcome.data, !.loading = FALSE,
                                   !.refreshing = FALSE]
                ELSE [state EXCEPT !.error = [kind |-> "string", value |-> outcome.message],
                                   !.loading = FALSE,
                                   !.refreshing = FALSE]
    /\ procs' = Without(procs, i)
    /\ output' = [kind |-> "view", value |-> render(state')]
    /\ lastOp' = [op |-> "fetchData", step |-> "settled",
                  isManualRefresh |-> procs[i].isManualRefresh,
                  ok |-> outcome.kind = "json",
                  failedBefore |-> state.error # null,
                  view |-> render(state')]
    /\ UNCHANGED << clock, retention, activeProfile, profiles, files, input >>

\* timeRangeSelect.onchange; the select exists only in the data view
timeRangeChange(value) ==
    /\ output = [kind |-> "view", value |-> "data"]
    /\ value # state.timeRange
    /\ state' = [state EXCEPT !.timeRange = value]
    /\ output' = [kind |-> "view", value |-> render(state')]
    /\ lastOp' = [op |-> "timeRange", view |-> render(state')]
    /\ UNCHANGED << clock, retention, activeProfile, profiles, files, procs, input >>

\* the page right after its script ran: nothing rendered, no call made yet
InitDashboard ==
    /\ clock = ApiNow
    /\ retention = "24h"
    /\ activeProfile = Unset
    /\ profiles = << >>
    /\ files = [p \in Paths |-> Absent]
    /\ lastOp = [op |-> "init"]
    /\ procs = << >>
    /\ input = NoValue
    /\ output = NoValue
    /\ \E range \in timeRanges : state = [stateAtLoad EXCEPT !.timeRange = range]

NextDashboard ==
    \/ \E isManualRefresh \in BOOLEAN : fetchDataCall(isManualRefresh)
    \/ \E i \in 1..MaxInFlight : \E outcome \in FetchOutcomes : fetchDataSettle(i, outcome)
    \/ \E value \in timeRanges : timeRangeChange(value)

SpecDashboard == InitDashboard /\ [][NextDashboard]_vars


(* ------------------------------ claims --------------------------------- *)
\* C1: bounded size.  After every collector run that persists the History
\* Document, it holds at most as many entries as the raw-retention count of
\* the configured retention.
C1_BoundedSize ==
    (lastOp.op = "collect" /\ lastOp.result = "saved")
        => Len(files[CollectorHistoryFile].entries) <= MAX_HISTORY_ENTRIES(retention)

\* a run appended to a document that was already at the cap, under each cap
\* the clock bound lets a run reach
C1_Witness ==
    /\ lastOp.op = "collect" /\ lastOp.result = "saved"
    /\ lastOp.before = MAX_HISTORY_ENTRIES(retention)
    /\ Len(files[CollectorHistoryFile].entries) = MAX_HISTORY_ENTRIES(retention)

\* C2: idempotent append.  A collector run whose snapshot timestamp equals
\* the timestamp of the last stored entry leaves every file as it was
\* (entries, lastUpdated and all other persisted fields).
C2_IdempotentAppend ==
    [][ ( /\ lastOp'.op = "collect"
          /\ files[CollectorHistoryFile].kind = "doc"
          /\ files[CollectorHistoryFile].entries # << >>
          /\ Last(files[CollectorHistoryFile].entries).timestamp = clock )
        => files' = files ]_vars

\* a run met its own timestamp at the end of the stored entries and skipped
C2_Witness ==
    /\ lastOp.op = "collect" /\ lastOp.result = "skipped"
    /\ Last(files[CollectorHistoryFile].entries).timestamp = clock

\* a summary carries entryCount, a raw entry does not
IsSummary(x) == "entryCount" \in DOMAIN x

NoMixedHour(view) ==
    \A i, j \in 1..Len(view) :
        (IsSummary(view[i]) /\ ~IsSummary(view[j]))
            => LocalHour(view[i].timestamp) # LocalHour(view[j].timestamp)

\* C3: raw wins.  For range 7d or 30d, neither getCombinedData nor
\* GET /api/history returns a summary and a raw entry of the same local
\* calendar hour.
C3_RawWins ==
    /\ (lastOp.op = "getCombinedData" /\ lastOp.range \in {"7d", "30d"})
           => NoMixedHour(lastOp.result)
    /\ (lastOp.op = "GET /api/history" /\ lastOp.range \in {"7d", "30d"}
           /\ lastOp.response.status = 200 /\ lastOp.response.format = "raw")
           => NoMixedHour(lastOp.response.entries)

\* the local calendar hours that hold an entry, and the entries of one hour
OccupiedHours(entries) == { LocalHour(entries[i].timestamp) : i \in 1..Len(entries) }
EntriesInHour(entries, hour) ==
    { i \in 1..Len(entries) : LocalHour(entries[i].timestamp) = hour }

\* C4: archival conservation.  generateSummaries gives exactly one summary
\* per local calendar hour that holds an input entry, none for any other
\* hour, and each summary's entryCount is the number of input entries of its
\* hour.
C4_ArchivalConservation ==
    output.kind = "summaries" =>
        LET out == output.value
        IN  /\ Len(out) = Cardinality(OccupiedHours(input))
            /\ \A hour \in OccupiedHours(input) :
                   \E i \in 1..Len(out) :
                       /\ out[i].timestamp = HourStart(hour)
                       /\ out[i].entryCount = Cardinality(EntriesInHour(input, hour))
            /\ \A i \in 1..Len(out) :
                   \E hour \in OccupiedHours(input) : out[i].timestamp = HourStart(hour)

\* three entries in two hours, with an empty hour in between
C4_Witness ==
    /\ output.kind = "summaries"
    /\ Len(input) = 3
    /\ Len(output.value) = 2
    /\ \E i \in 1..2 : output.value[i].entryCount = 2
    /\ \E hour \in 0..LocalHour(MaxInputTs) :
           /\ hour \notin OccupiedHours(input)
           /\ \E a, b \in OccupiedHours(input) : a < hour /\ hour < b

\* C5: summary monotonicity.  Every summary's tokensUsed, modelCalls and
\* mcpCalls are at least those of every input entry of its hour, whatever
\* the entry's gauge percentages.
C5_SummaryMonotonicity ==
    output.kind = "summaries" =>
        \A i \in 1..Len(output.value), j \in 1..Len(input) :
            output.value[i].timestamp = HourStart(LocalHour(input[j].timestamp)) =>
                /\ output.value[i].tokensUsed >= input[j].tokensUsed
                /\ output.value[i].modelCalls >= input[j].modelCalls
                /\ output.value[i].mcpCalls >= input[j].mcpCalls

\* an hour whose last entry has lower counters than an earlier one and zero
\* gauges
C5_Witness ==
    /\ output.kind = "summaries"
    /\ Len(input) >= 2
    /\ LocalHour(input[1].timestamp) = LocalHour(input[2].timestamp)
    /\ input[2].tokensUsed < input[1].tokensUsed
    /\ input[2].tokenQuotaPercent = 0 /\ input[2].timeQuotaPercent = 0
    /\ \E i \in 1..Len(output.value) :
           /\ output.value[i].timestamp = HourStart(LocalHour(input[1].timestamp))
           /\ output.value[i].tokensUsed = input[1].tokensUsed

\* C6: a rejected profile delete is a no-op.  profile --delete of "default"
\* or of the active profile is refused and leaves the profiles mapping, the
\* activeProfile pointer and every file unchanged.
C6_RejectedDeleteNoOp ==
    [][ (lastOp'.op = "profile --delete"
           /\ (lastOp'.name = Default \/ lastOp'.name = activeProfile))
        => (/\ lastOp'.result # "deleted"
            /\ UNCHANGED << profiles, activeProfile, files >>) ]_vars

\* the delete of the active profile was refused while its files existed
C6_Witness ==
    /\ lastOp.op = "profile --delete" /\ lastOp.result = "active"
    /\ lastOp.name = activeProfile /\ lastOp.name \in DOMAIN profiles
    /\ files[<< lastOp.name, HistoryName >>].kind = "doc"
    /\ files[<< lastOp.name, SummaryName >>].kind = "doc"

\* C7: corrupt data is propagated.  A collector run that finds an unparseable
\* History Document does not save, and leaves the file as it was.
C7_CorruptPropagated ==
    [][ (lastOp'.op = "collect" /\ files[CollectorHistoryFile].kind = "corrupt")
        => (/\ lastOp'.result # "saved"
            /\ files'[CollectorHistoryFile] = files[CollectorHistoryFile]) ]_vars

\* C8: no torn reads.  A reader of the history file never finds content that
\* is neither the old nor the new document while a collector run writes it.
C8_NoTornRead ==
    lastOp.op = "read" => lastOp.saw # "corrupt"

\* both runs saved, each having loaded before the other opened the file
BothLoadedFirst ==
    /\ \A c \in Collectors :
           procs[c].pc = "done" /\ procs[c].result = "saved" /\ procs[c].loadedFirst
    /\ procs["c1"].entry.timestamp # procs["c2"].entry.timestamp

HoldsEntry(content, entry) ==
    \E i \in 1..Len(content.entries) : content.entries[i] = entry

\* C9: lost update.  When two collector runs with distinct timestamps both
\* load before either saves, the document left on disk holds the snapshot
\* of exactly one of them.
C9_LostUpdate ==
    (BothLoadedFirst /\ files[CollectorHistoryFile].kind = "doc")
        => ( HoldsEntry(files[CollectorHistoryFile], procs["c1"].entry)
               # HoldsEntry(files[CollectorHistoryFile], procs["c2"].entry) )

\* the interleaving happened and c1's snapshot is the one that was lost
C9_Witness ==
    /\ BothLoadedFirst
    /\ files[CollectorHistoryFile].kind = "doc"
    /\ ~HoldsEntry(files[CollectorHistoryFile], procs["c1"].entry)
    /\ HoldsEntry(files[CollectorHistoryFile], procs["c2"].entry)

\* C10: namespace isolation.  A collector run that saves changes the History
\* Document of the active profile, the one archive and the REST handlers
\* read, and no other file.
C10_NamespaceIsolation ==
    [][ (lastOp'.op = "collect" /\ lastOp'.result = "saved")
        => (/\ getProfileDataPath(HistoryName) = getHistoryFilePath
            /\ files'[getHistoryFilePath] # files[getHistoryFilePath]
            /\ \A p \in Paths \ {getHistoryFilePath} : files'[p] = files[p]) ]_vars

\* the entries of the active profile's History Document inside the trailing
\* window of the given number of hours
RecentEntries(hours) ==
    IF files[getHistoryFilePath].kind # "doc" THEN << >>
    ELSE SelectSeq(files[getHistoryFilePath].entries,
                   LAMBDA e : e.timestamp >= clock - hours * TicksPerHour)

\* h is n/d rounded to the nearest integer, halves upwards (d > 0)
IsRounded(h, n, d) == 2 * h * d <= 2 * n + d /\ 2 * n + d < 2 * (h + 1) * d

\* C11: rate divide-by-zero safety.  When at least two entries lie in the
\* window of GET /api/rates and the last of them is not later than the first,
\* the answer is the 400 invalid-window error, not the 404 insufficient-data
\* error and not a rate.
C11_RatesInvalidWindow ==
    lastOp.op = "GET /api/rates" =>
        LET es == RecentEntries(windowHours(lastOp.window, "1h", 1))
        IN  (Len(es) >= 2 /\ Last(es).timestamp <= es[1].timestamp)
                => ( /\ lastOp.response.status = 400
                     /\ lastOp.response.error = "Invalid time window" )

\* two entries of one instant in the window, answered with the 400
C11_Witness ==
    /\ lastOp.op = "GET /api/rates"
    /\ LET es == RecentEntries(windowHours(lastOp.window, "1h", 1))
       IN  Len(es) >= 2 /\ Last(es).timestamp = es[1].timestamp
    /\ lastOp.response.status = 400

\* C12: prediction sign handling.  With at least two points in the trailing
\* 6-hour window and the latest tokenQuotaPercent not above the oldest, the
\* predict command gets null from calculateQuotaPrediction, and GET
\* /api/predict answers hoursUntilExhausted = null (or refuses the window as
\* invalid); no number of hours, NaN or infinity is produced.
C12_NotDepleting ==
    LET es == RecentEntries(PredictionWindowHours)
        flat == Len(es) >= 2 /\ Last(es).tokenQuotaPercent <= es[1].tokenQuotaPercent
    IN  /\ (lastOp.op = "predict" /\ lastOp.result = "done" /\ flat)
               => lastOp.prediction = NoValue
        /\ (lastOp.op = "GET /api/predict" /\ lastOp.window = NoWindow /\ flat)
               => \/ lastOp.response.status = 400
                  \/ /\ lastOp.response.status = 200
                     /\ lastOp.response.hoursUntilExhausted = JsonNull

\* C15: no data is reported as not-found.  GET /api/current and GET
\* /api/history answer 404 when the History Document cannot be loaded or
\* holds no entry to return.
C15_NoDataNotFound ==
    (/\ lastOp.op \in {"GET /api/current", "GET /api/history"}
     /\ \/ loadData = NoValue
        \/ (loadData.data.entries = << >> /\ loadData.summaries = << >>))
        => lastOp.response.status = 404

\* C19: prediction value.  With at least two points in the trailing 6-hour
\* window, positive elapsed time and a positive percent change, the
\* prediction is round((100 - quotaPercentNow) / percentPerHour), both from
\* calculateQuotaPrediction (predict command) and from GET /api/predict.
C19_PredictionValue ==
    LET es == RecentEntries(PredictionWindowHours)
        elapsed == Last(es).timestamp - es[1].timestamp
        change == Last(es).tokenQuotaPercent - es[1].tokenQuotaPercent
        rising == Len(es) >= 2 /\ elapsed > 0 /\ change > 0
    IN  /\ (lastOp.op = "predict" /\ lastOp.result = "done" /\ rising)
               => /\ lastOp.prediction # NoValue
                  /\ lastOp.prediction.hoursUntilExhausted.k = "num"
                  /\ IsRounded(lastOp.prediction.hoursUntilExhausted.v,
                               (100 - Last(files[getHistoryFilePath].entries).tokenQuotaPercent)
                                   * elapsed,
                               change * TicksPerHour)
        /\ (lastOp.op = "GET /api/predict" /\ lastOp.window = NoWindow /\ rising)
               => /\ lastOp.response.status = 200
                  /\ lastOp.response.hoursUntilExhausted.k = "num"
                  /\ IsRounded(lastOp.response.hoursUntilExhausted.v,
                               (100 - Last(es).tokenQuotaPercent) * elapsed,
                               change * TicksPerHour)

\* 50% at T and 60% at T + 4h, asked at T + 4h: 16 hours
C19_Witness ==
    /\ lastOp.op = "predict"
    /\ lastOp.result = "done"
    /\ files[getHistoryFilePath].kind = "doc"
    /\ Len(files[getHistoryFilePath].entries) = 2
    /\ files[getHistoryFilePath].entries[1].timestamp = clock - 4 * TicksPerHour
    /\ files[getHistoryFilePath].entries[1].tokenQuotaPercent = 50
    /\ files[getHistoryFilePath].entries[2].timestamp = clock
    /\ files[getHistoryFilePath].entries[2].tokenQuotaPercent = 60
    /\ lastOp.prediction # NoValue
    /\ lastOp.prediction.hoursUntilExhausted = Num(16)

\* what the rates are computed from when GET /api/rates succeeds
RatesSucceeded == lastOp.op = "GET /api/rates" /\ lastOp.response.status = 200
RatesEntries == RecentEntries(windowHours(lastOp.window, "1h", 1))
RatesElapsed == Last(RatesEntries).timestamp - RatesEntries[1].timestamp
RatesTokens == Last(RatesEntries).tokensUsed - RatesEntries[1].tokensUsed
RatesCalls == Last(RatesEntries).modelCalls - RatesEntries[1].modelCalls

\* C20 as stated: the answer of GET /api/rates carries the quotients
\* themselves, tokensPerHour = (last.tokensUsed - first.tokensUsed) /
\* hoursElapsed, callsPerHour likewise, avgTokensPerCall their ratio or 0.
C20_ExactRates ==
    RatesSucceeded =>
        /\ lastOp.response.tokensPerHour.k = "num"
        /\ lastOp.response.tokensPerHour.v * RatesElapsed = RatesTokens * TicksPerHour
        /\ lastOp.response.callsPerHour.k = "num"
        /\ lastOp.response.callsPerHour.v * RatesElapsed = RatesCalls * TicksPerHour
        /\ lastOp.response.avgTokensPerCall.k = "num"
        /\ IF RatesCalls > 0
           THEN lastOp.response.avgTokensPerCall.v * RatesCalls = RatesTokens
           ELSE lastOp.response.avgTokensPerCall.v = 0

\* C20, amended: the answer carries each of the three quotients rounded to
\* the nearest integer.
C20_RoundedRates ==
    RatesSucceeded =>
        /\ RatesElapsed > 0
        /\ lastOp.response.tokensPerHour.k = "num"
        /\ IsRounded(lastOp.response.tokensPerHour.v, RatesTokens * TicksPerHour, RatesElapsed)
        /\ lastOp.response.callsPerHour.k = "num"
        /\ IsRounded(lastOp.response.callsPerHour.v, RatesCalls * TicksPerHour, RatesElapsed)
        /\ lastOp.response.avgTokensPerCall.k = "num"
        /\ IF RatesCalls > 0
           THEN IsRounded(lastOp.response.avgTokensPerCall.v, RatesTokens, RatesCalls)
           ELSE lastOp.response.avgTokensPerCall.v = 0

\* entries at 10:00, 11:00, 12:00 and a 2-hour window ending at 12:00
C20_Witness ==
    /\ RatesSucceeded
    /\ lastOp.window = "2h"
    /\ Len(RatesEntries) = 3
    /\ [i \in 1..3 |-> RatesEntries[i].timestamp]
           = << clock - 2 * TicksPerHour, clock - TicksPerHour, clock >>
    /\ [i \in 1..3 |-> RatesEntries[i].tokensUsed] = << 1000000, 1500000, 2200000 >>
    /\ [i \in 1..3 |-> RatesEntries[i].modelCalls] = << 100, 150, 220 >>
    /\ lastOp.response.tokensPerHour = Num(600000)
    /\ lastOp.response.callsPerHour = Num(60)
    /\ lastOp.response.avgTokensPerCall = Num(10000)

HistoryPaths == ({""} \cup Names) \X {HistoryName}
SummaryPaths == ({""} \cup Names) \X {SummaryName}

StrictlyAscending(entries) ==
    \A i \in 1..(Len(entries) - 1) : entries[i].timestamp < entries[i + 1].timestamp

\* C13: timestamp ordering.  With a clock that never goes backwards, after
\* any sequence of collector and archive runs the entries of every History
\* Document are in strictly ascending timestamp order.
C13_TimestampOrder ==
    \A p \in HistoryPaths : files[p].kind = "doc" => StrictlyAscending(files[p].entries)

\* an archive pass has summarized entries and left two or more raw ones
C13_Witness ==
    /\ lastOp.op = "archive"
    /\ lastOp.result = "trimmed"
    /\ lastOp.archived > 0
    /\ Len(files[CollectorHistoryFile].entries) >= 2

\* C14: archive is safe to re-run.  An archive pass (7d or 30d) that directly
\* follows a completed pass, at the same clock and with no append between,
\* leaves the entries of every History Document and the summaries of every
\* Summary Document as they were.
C14_ArchiveRerun ==
    [][ ( /\ lastOp.op = "archive"
          /\ lastOp.result \in {"nothing", "trimmed"}
          /\ lastOp'.op = "archive" )
        => ( /\ \A p \in HistoryPaths :
                    /\ files'[p].kind = files[p].kind
                    /\ files[p].kind = "doc" => files'[p].entries = files[p].entries
             /\ \A p \in SummaryPaths :
                    /\ files'[p].kind = files[p].kind
                    /\ files[p].kind = "doc" => files'[p].summaries = files[p].summaries ) ]_vars

\* a second pass has run on what a summarizing first pass left
C14_Witness ==
    /\ lastOp.op = "archive"
    /\ lastOp.result = "trimmed"
    /\ lastOp.rerun
    /\ Len(files[getProfileDataPath(HistoryName)].entries) = rawEntriesLimit
    /\ files[getProfileDataPath(SummaryName)].kind = "doc"
    /\ files[getProfileDataPath(SummaryName)].summaries # << >>

\* C16: an unrecognized range is rejected.  A range token outside the six
\* known ones is answered with an invalid-range error: GET /api/history does
\* not answer 200, and getCombinedData does not hand back the view of its
\* default range.
C16_UnknownRangeRejected ==
    LET unknown == lastOp.range \notin RangeTokens \cup {NoRange}
    IN  /\ (lastOp.op = "GET /api/history" /\ unknown /\ loadData # NoValue)
               => lastOp.response.status = 400
        /\ (lastOp.op = "getCombinedData" /\ unknown /\ getCombinedData("24h", clock) # << >>)
               => lastOp.result # getCombinedData("24h", clock)

\* C17: a successful profile delete has a bounded effect.  Deleting an
\* existing, non-default, non-active profile removes its registry entry and
\* its two documents, and leaves the activeProfile pointer, the other
\* registry entries and the other documents as they were.
C17_DeleteEffect ==
    [][ \A name \in Names :
          ( /\ lastOp'.op = "profile --delete"
            /\ lastOp'.name = name
            /\ name \in DOMAIN profiles
            /\ name # activeProfile )
          => ( /\ DOMAIN profiles' = DOMAIN profiles \ {name}
               /\ \A n \in DOMAIN profiles' : profiles'[n] = profiles[n]
               /\ activeProfile' = activeProfile
               /\ files'[<< name, HistoryName >>] = Absent
               /\ files'[<< name, SummaryName >>] = Absent
               /\ \A p \in Paths : p[1] # name => files'[p] = files[p] ) ]_vars

\* both documents of the deleted profile existed, and another profile keeps
\* its History Document
C17_Witness ==
    /\ lastOp.op = "profile --delete"
    /\ lastOp.result = "deleted"
    /\ Cardinality(lastOp.unlinked) = 2
    /\ lastOp.name \notin DOMAIN profiles
    /\ \E n \in DOMAIN profiles : files[<< n, HistoryName >>].kind = "doc"

\* C18: a rejected profile create is a no-op.  profile --create with the
\* name "default" or with a name already in the registry leaves the profiles
\* mapping and the activeProfile pointer as they were.
C18_RejectedCreateNoOp ==
    [][ ( /\ lastOp'.op = "profile --create"
          /\ (lastOp'.name = Default \/ lastOp'.name \in DOMAIN profiles) )
        => ( /\ lastOp'.result \in {"reserved", "exists"}
             /\ profiles' = profiles
             /\ activeProfile' = activeProfile ) ]_vars

\* a create of an existing name was refused at a later time than the one
\* recorded in the profile
C18_Witness ==
    /\ lastOp.op = "profile --create"
    /\ lastOp.result = "exists"
    /\ lastOp.name \in DOMAIN profiles
    /\ profiles[lastOp.name].createdAt < clock

\* what an archive pass works on: the files of the active profile and the
\* summaries it produces from the entries above the raw limit
ArchiveHistory == files[getProfileDataPath(HistoryName)]
ArchiveSummary == files[getProfileDataPath(SummaryName)]
ToArchive ==
    SubSeq(ArchiveHistory.entries, 1, Len(ArchiveHistory.entries) - rawEntriesLimit)
Produced == generateSummaries(ToArchive)
StoredBefore == IF ArchiveSummary.kind = "doc" THEN ArchiveSummary.summaries ELSE << >>
TimestampsOf(s) == { s[i].timestamp : i \in 1..Len(s) }

\* an archive pass is about to summarize entries: a long retention, a
\* History Document above the raw limit
PassSummarizes ==
    /\ retention \in {"7d", "30d"}
    /\ ArchiveHistory.kind = "doc"
    /\ Len(ArchiveHistory.entries) > rawEntriesLimit

\* C21: merge rule, new wins.  When an archive pass produces a summary for a
\* bucket timestamp the Summary Document already holds, the document the pass
\* persists holds the newly produced summary for that bucket.
C21_NewWins ==
    [][ (lastOp'.op = "archive" /\ lastOp'.result = "trimmed" /\ PassSummarizes)
        => \A i \in 1..Len(Produced) :
             Produced[i].timestamp \in TimestampsOf(StoredBefore)
               => \A k \in 1..Len(ArchiveSummary'.summaries) :
                    ArchiveSummary'.summaries[k].timestamp = Produced[i].timestamp
                      => ArchiveSummary'.summaries[k] = Produced[i] ]_vars

\* C22: pruning on every archival pass.  After an archive pass with
\* retention 7d or 30d has run to its end on a History Document with entries,
\* the Summary Document holds no summary older than now minus the retention.
C22_PrunedEveryPass ==
    (lastOp.op = "archive" /\ lastOp.result = "trimmed" /\ ArchiveSummary.kind = "doc")
        => \A k \in 1..Len(ArchiveSummary.summaries) :
             ArchiveSummary.summaries[k].timestamp
                 >= clock - retentionHours(retention) * TicksPerHour

\* C23: unique hour buckets.  Starting from no Summary Document, after any
\* sequence of archive passes every Summary Document holds at most one
\* summary per bucket timestamp.
C23_UniqueBuckets ==
    \A p \in SummaryPaths :
        files[p].kind = "doc"
          => \A i, j \in 1..Len(files[p].summaries) :
               files[p].summaries[i].timestamp = files[p].summaries[j].timestamp => i = j

\* a pass met a bucket that was already stored and dropped the duplicate
C23_Witness ==
    /\ lastOp.op = "archive"
    /\ lastOp.result = "trimmed"
    /\ lastOp.duplicates > 0
    /\ Len(ArchiveSummary.summaries) >= 1

\* C24: archive slice and trim.  A pass on n entries above the raw limit
\* summarizes the oldest n - limit of them (their hours, with the hours
\* already stored, are the buckets persisted inside the retention window),
\* persists the newest limit entries in their order, and returns
\* archived = n - limit.
C24_SliceAndTrim ==
    [][ (lastOp'.op = "archive" /\ lastOp'.result # "killed" /\ PassSummarizes)
        => LET n == Len(ArchiveHistory.entries)
               cutoff == clock - retentionHours(retention) * TicksPerHour
               hours == { HourStart(LocalHour(ToArchive[i].timestamp)) : i \in 1..Len(ToArchive) }
           IN  /\ ArchiveHistory'.entries
                      = SubSeq(ArchiveHistory.entries, n - rawEntriesLimit + 1, n)
               /\ lastOp'.archived = n - rawEntriesLimit
               /\ TimestampsOf(ArchiveSummary'.summaries)
                      = { t \in TimestampsOf(StoredBefore) \cup hours : t >= cutoff } ]_vars

\* a pass has summarized two or more entries and left the raw limit
C24_Witness ==
    /\ lastOp.op = "archive"
    /\ lastOp.result = "trimmed"
    /\ lastOp.archived >= 2
    /\ Len(ArchiveHistory.entries) = rawEntriesLimit
    /\ ArchiveSummary.kind = "doc"

\* C25: the prediction classification matches the reported value.  When GET
\* /api/predict reports a number of hours, its status is "warning" exactly
\* when the reported number is below 24.
C25_StatusMatchesReported ==
    ( /\ lastOp.op = "GET /api/predict"
      /\ lastOp.response.status = 200
      /\ lastOp.response.hoursUntilExhausted.k = "num" )
        => (lastOp.response.warning <=> lastOp.response.hoursUntilExhausted.v < WarningHours)

\* C26: no trim loss under timely archival.  Under retention 7d or 30d, a
\* collector run on a raw log below the append cap removes no entry: the
\* saved log is the loaded log with the new entry at its end.
C26_NoTrimLoss ==
    [][ ( /\ lastOp'.op = "collect"
          /\ lastOp'.result = "saved"
          /\ retention \in {"7d", "30d"}
          /\ files[CollectorHistoryFile].kind = "doc"
          /\ Len(files[CollectorHistoryFile].entries) < MAX_HISTORY_ENTRIES(retention) )
        => ( /\ Len(files'[CollectorHistoryFile].entries)
                    = Len(files[CollectorHistoryFile].entries) + 1
             /\ SubSeq(files'[CollectorHistoryFile].entries, 1,
                       Len(files[CollectorHistoryFile].entries))
                    = files[CollectorHistoryFile].entries ) ]_vars

\* a collector run on the raw log an archive pass has cut to the raw limit
C26_Witness ==
    /\ lastOp.op = "collect"
    /\ lastOp.result = "saved"
    /\ retention \in {"7d", "30d"}
    /\ lastOp.before = rawEntriesLimit
    /\ files[<< "", SummaryName >>].kind = "doc"
    /\ files[<< "", SummaryName >>].summaries # << >>
    /\ Len(files[CollectorHistoryFile].entries) = rawEntriesLimit + 1

\* C27: cross-pass accounting.  When a pass removes raw entries of an hour
\* whose bucket is already stored (from entries an earlier pass removed),
\* the bucket it persists counts both: the stored entryCount plus the number
\* of entries of that hour removed now.
C27_CrossPassCount ==
    [][ (lastOp'.op = "archive" /\ lastOp'.result = "trimmed" /\ PassSummarizes)
        => \A i \in 1..Len(Produced) : \A j \in 1..Len(StoredBefore) :
             StoredBefore[j].timestamp = Produced[i].timestamp
               => \A k \in 1..Len(ArchiveSummary'.summaries) :
                    ArchiveSummary'.summaries[k].timestamp = Produced[i].timestamp
                      => ArchiveSummary'.summaries[k].entryCount
                             = StoredBefore[j].entryCount + Produced[i].entryCount ]_vars

\* C28: the active profile is always valid.  After any sequence of profile
\* create, switch and delete commands the activeProfile pointer is unset,
\* "default", or a name present in the profiles mapping.
C28_ActiveProfileValid ==
    activeProfile \in {Unset, Default} \cup DOMAIN profiles

\* a delete went through while a named profile was the active one
C28_Witness ==
    /\ lastOp.op = "profile --delete"
    /\ lastOp.result = "deleted"
    /\ activeProfile \in DOMAIN profiles

\* C29: an interrupted archive recovers on re-run.  A pass that directly
\* follows a pass killed between its two writes, at the same clock and with
\* no append between, leaves the History entries and the summaries the
\* killed pass would have left had it run to its end.
C29_RerunAfterKill ==
    [][ ( /\ lastOp.op = "archive"
          /\ lastOp.result = "killed"
          /\ lastOp'.op = "archive"
          /\ lastOp'.result # "killed" )
        => ( /\ ArchiveHistory'.entries = lastOp.complete.entries
             /\ ArchiveSummary'.summaries = lastOp.complete.summaries ) ]_vars

\* the re-run met the buckets the killed pass had written
C29_Witness ==
    /\ lastOp.op = "archive"
    /\ lastOp.result = "trimmed"
    /\ lastOp.recovered
    /\ lastOp.archived > 0
    /\ lastOp.duplicates > 0
    /\ Len(ArchiveHistory.entries) = rawEntriesLimit

\* C30: the dashboard recovers from a failed fetch.  Whenever a fetchData
\* call completes successfully, the render that follows it shows the data
\* view, also when an earlier call had failed.
C30_RecoversAfterSuccess ==
    (lastOp.op = "fetchData" /\ lastOp.step = "settled" /\ lastOp.ok)
        => lastOp.view = "data"

====
